---- MODULE Spec2Model ----
(***************************************************************************)
(* sony-bravia-cli: a command line driver for the Sony Bravia serial       *)
(* protocol (src/src/main.rs, src/src/error.rs).                           *)
(*                                                                         *)
(* One process invocation is modelled: main parses its arguments, opens    *)
(* the serial port and dispatches to one command function; the command     *)
(* functions build a request frame and hand it to write_command, which     *)
(* appends the checksum, writes the frame and reads and validates the      *)
(* response.  The device and the serial port are the environment: every    *)
(* read delivers any bytes (possibly fewer than asked for) or an I/O       *)
(* error, every write succeeds or fails.                                  *)
(***************************************************************************)
EXTENDS Integers, Sequences, FiniteSets, TLC

VARIABLES
    overflow_checks,  \* build profile: TRUE = debug (overflow panics), FALSE = --release (wraps)
    args,             \* env::args(): <<program, device, action>>
    port_open,        \* the serial port has been opened
    stack,            \* call stack, a sequence of [fn, pc]; the last element is running
    contents,         \* write_command: the frame handed over by the command function
    vec,              \* write_command: contents.clone() with the checksum pushed
    resp_buf,         \* write_command: the 3 byte response header buffer
    resp_data_buf,    \* write_command: the response data buffer of a query
    resp_checksum,    \* write_command: the popped checksum byte (-1: not yet popped)
    wc_ret,           \* the Vec<u8> write_command returned last
    ipo_ret,          \* the bool is_powered_on returned last: <<>> (none yet) or <<b>>
    port_writes,      \* history: the buffers handed to port.write_all, with the result
    port_reads,       \* history: the port.read calls, with what they delivered
    stdout,           \* lines printed with println!
    outcome           \* "Running", "Ok" (main returned) or the name of the failure

vars == << overflow_checks, args, port_open, stack, contents, vec, resp_buf,
           resp_data_buf, resp_checksum, wc_ret, ipo_ret, port_writes,
           port_reads, stdout, outcome >>

----------------------------------------------------------------------------
(* Bounds of the model *)

\* Largest data_length byte (resp_buf[2]) the modelled device announces to a query.
MaxDataLen == 2

----------------------------------------------------------------------------
(* Protocol constants, main.rs:5-13 *)

CONTROL_REQUEST == 140          \* 0x8c
QUERY_REQUEST == 131            \* 0x83
CATEGORY == 0
POWER_FUNCTION == 0
VOLUME_CONTROL_FUNCTION == 5
MUTING_FUNCTION == 6
RESPONSE_HEADER == 112          \* 0x70
RESPONSE_ANSWER == 0

\* u8::MAX
U8Max == 255

\* The bytes the modelled device may put on the wire: the data lengths up to
\* the bound, the header 0x70 and a wrong one 0x71, the checksums of the short
\* query responses (0x71, 0x72, 0x73), 0x8d (a payload that brings the byte sum
\* of a response to exactly 255) and 0xff (a payload that carries it over 255).
DeviceBytes == (0 .. MaxDataLen) \cup {112, 113, 114, 115, 141, 255}

\* All sequences over S of length 0..n
RECURSIVE SeqsUpTo(_, _)
SeqsUpTo(S, n) ==
    IF n = 0 THEN { <<>> }
    ELSE LET shorter == SeqsUpTo(S, n - 1)
         IN  shorter \cup { Append(s, b) : s \in { t \in shorter : Len(t) = n - 1 }, b \in S }

\* vec![0; n]
Zeros(n) == [i \in 1 .. n |-> 0]

\* A buffer after port.read stored the bytes d at its start: the rest is untouched.
Filled(buf, d) == [i \in 1 .. Len(buf) |-> IF i <= Len(d) THEN d[i] ELSE buf[i]]

Front(s) == SubSeq(s, 1, Len(s) - 1)

Last(s) == s[Len(s)]

----------------------------------------------------------------------------
(* checksum, main.rs:21-39 *)

\* The mathematical sum of the bytes of a sequence.
RECURSIVE SumBytes(_)
SumBytes(s) == IF s = <<>> THEN 0 ELSE s[1] + SumBytes(Tail(s))

\* `let s: u8 = command.iter().sum()` overflows: the bytes are non-negative, so
\* some partial sum exceeds u8::MAX exactly when the total does.
sum_overflows(command) == SumBytes(command) > U8Max

\* The value checksum returns when it returns: the u8 sum, wrapped as a
\* --release build wraps it, and then `% 255`.
checksum(command) == (SumBytes(command) % 256) % 255

\* checksum panics ("attempt to add with overflow") in a build with overflow checks.
checksum_panics(command) == overflow_checks /\ sum_overflows(command)

----------------------------------------------------------------------------
(* The request frames of the command functions, main.rs:52-95 *)

\* power_on with the argument of power_off.
power_on_args_swapped == << CONTROL_REQUEST, CATEGORY, POWER_FUNCTION, 2, 0 >>

power_on_args == << CONTROL_REQUEST, CATEGORY, POWER_FUNCTION, 2, 1 >>

power_off_args == << CONTROL_REQUEST, CATEGORY, POWER_FUNCTION, 2, 0 >>

volume_up_args == << CONTROL_REQUEST, CATEGORY, VOLUME_CONTROL_FUNCTION, 3, 0, 0 >>

volume_down_args == << CONTROL_REQUEST, CATEGORY, VOLUME_CONTROL_FUNCTION, 3, 0, 1 >>

mute_toggle_args == << CONTROL_REQUEST, CATEGORY, MUTING_FUNCTION, 2, 0 >>

is_powered_on_args == << QUERY_REQUEST, CATEGORY, POWER_FUNCTION, 255, 255 >>

----------------------------------------------------------------------------
(* The command line, main.rs:179-206 *)

\* A match whose `status` arm calls power_toggle.
MatchArms_status_toggles ==
    [ t \in {"on", "off", "power", "volume-up", "volume-down", "mute", "status"} |->
        CASE t = "on" -> "power_on"
          [] t = "off" -> "power_off"
          [] t = "power" -> "power_toggle"
          [] t = "volume-up" -> "volume_up"
          [] t = "volume-down" -> "volume_down"
          [] t = "mute" -> "mute_toggle"
          [] t = "status" -> "power_toggle" ]

\* The arms of `match &args[2][..]`: action token -> the function main calls.
MatchArms ==
    [ t \in {"on", "off", "power", "volume-up", "volume-down", "mute", "status"} |->
        CASE t = "on" -> "power_on"
          [] t = "off" -> "power_off"
          [] t = "power" -> "power_toggle"
          [] t = "volume-up" -> "volume_up"
          [] t = "volume-down" -> "volume_down"
          [] t = "mute" -> "mute_toggle"
          [] t = "status" -> "print_status" ]

\* The action tokens tried: the seven of the match, two volume levels and an unknown word.
Tokens == DOMAIN MatchArms \cup {"volume:0", "volume:255", "bogus"}

\* The argument vectors tried: with the right and with a wrong number of arguments.
ArgVectors ==
    { << "sony-bravia-cli", "/dev/ttyUSB0", t >> : t \in Tokens }
        \cup { << "sony-bravia-cli" >>,
               << "sony-bravia-cli", "/dev/ttyUSB0" >>,
               << "sony-bravia-cli", "/dev/ttyUSB0", "on", "off" >> }

----------------------------------------------------------------------------
(* Control flow helpers *)

Top == stack[Len(stack)]

\* The process is running function f at label l.
At(f, l) == outcome = "Running" /\ Top.fn = f /\ Top.pc = l

Goto(l) == stack' = [stack EXCEPT ![Len(stack)].pc = l]

\* Call callee; the caller resumes at label cont.
Call(cont, callee) ==
    stack' = Append([stack EXCEPT ![Len(stack)].pc = cont], [fn |-> callee, pc |-> "entry"])

Return == stack' = Front(stack)

\* The process ends: std::process::exit, a panic, or main returning.
Exit(o) == outcome' = o /\ UNCHANGED stack

\* The function that called the running one.
Caller == stack[Len(stack) - 1].fn

Init ==
    /\ overflow_checks \in BOOLEAN
    /\ args \in ArgVectors
    /\ port_open = FALSE
    /\ stack = << [fn |-> "main", pc |-> "args"] >>
    /\ contents = <<>>
    /\ vec = <<>>
    /\ resp_buf = <<>>
    /\ resp_data_buf = <<>>
    /\ resp_checksum = -1
    /\ wc_ret = <<>>
    /\ ipo_ret = <<>>
    /\ port_writes = <<>>
    /\ port_reads = <<>>
    /\ stdout = <<>>
    /\ outcome = "Running"

----------------------------------------------------------------------------
(* main, main.rs:179-207 *)

\* The history of the process is untouched by a step that does no I/O.
NoIO == UNCHANGED << port_open, port_writes, port_reads >>

\* The locals of write_command are untouched.
NoLocals == UNCHANGED << contents, vec, resp_buf, resp_data_buf, resp_checksum >>

NoBuild == UNCHANGED << overflow_checks, args >>

\* main.rs:180-188: anything but three arguments prints the usage and exits 1.
MainCheckArgs ==
    /\ At("main", "args")
    /\ IF Len(args) = 3
       THEN Goto("open") /\ UNCHANGED outcome
       ELSE Exit("UnexpectedArguments")
    /\ NoIO /\ NoLocals /\ NoBuild
    /\ UNCHANGED << wc_ret, ipo_ret, stdout >>

\* main.rs:190-193: the port opens.
MainOpenPort ==
    /\ At("main", "open")
    /\ port_open' = TRUE
    /\ Goto("match")
    /\ NoLocals /\ NoBuild
    /\ UNCHANGED << port_writes, port_reads, wc_ret, ipo_ret, stdout, outcome >>

\* main.rs:193: `.expect("Failed to open port.")` panics.
MainOpenPortFails ==
    /\ At("main", "open")
    /\ Exit("OpenPort")
    /\ NoIO /\ NoLocals /\ NoBuild
    /\ UNCHANGED << wc_ret, ipo_ret, stdout >>

\* A match whose default arm runs a command instead of rejecting the token.
MainMatch_default_status ==
    /\ At("main", "match")
    /\ IF args[3] \in DOMAIN MatchArms
       THEN Call("end", MatchArms[args[3]])
       ELSE Call("end", "print_status")
    /\ NoIO /\ NoLocals /\ NoBuild
    /\ UNCHANGED << wc_ret, ipo_ret, stdout, outcome >>

\* main.rs:194-206: the match on the action token.
MainMatch ==
    /\ At("main", "match")
    /\ IF args[3] \in DOMAIN MatchArms
       THEN Call("end", MatchArms[args[3]]) /\ UNCHANGED outcome
       ELSE Exit("InvalidAction")
    /\ NoIO /\ NoLocals /\ NoBuild
    /\ UNCHANGED << wc_ret, ipo_ret, stdout >>

\* main.rs:207: main returns, the process exits 0.
MainReturn ==
    /\ At("main", "end")
    /\ Exit("Ok")
    /\ NoIO /\ NoLocals /\ NoBuild
    /\ UNCHANGED << wc_ret, ipo_ret, stdout >>

----------------------------------------------------------------------------
(* The command functions, main.rs:52-113 *)

\* A command function builds its frame and calls write_command with it.
CallWriteCommand(f, frame, cont) ==
    /\ At(f, "entry")
    /\ contents' = frame
    /\ Call(cont, "write_command")
    /\ NoIO /\ NoBuild
    /\ UNCHANGED << vec, resp_buf, resp_data_buf, resp_checksum, wc_ret, ipo_ret,
                    stdout, outcome >>

power_on == CallWriteCommand("power_on", power_on_args, "ret")

power_off == CallWriteCommand("power_off", power_off_args, "ret")

volume_up == CallWriteCommand("volume_up", volume_up_args, "ret")

volume_down == CallWriteCommand("volume_down", volume_down_args, "ret")

mute_toggle == CallWriteCommand("mute_toggle", mute_toggle_args, "ret")

\* main.rs:92-93
is_powered_on == CallWriteCommand("is_powered_on", is_powered_on_args, "index")

ControlFns == {"power_on", "power_off", "volume_up", "volume_down", "mute_toggle"}

\* The control functions drop the Vec write_command returned and return.
CommandReturn ==
    /\ \E f \in ControlFns : At(f, "ret")
    /\ Return
    /\ NoIO /\ NoLocals /\ NoBuild
    /\ UNCHANGED << wc_ret, ipo_ret, stdout, outcome >>

\* main.rs:94: `return data[0] == 1`; indexing an empty Vec panics.
is_powered_on_index ==
    /\ At("is_powered_on", "index")
    /\ IF wc_ret = <<>>
       THEN Exit("IndexOutOfBounds") /\ UNCHANGED ipo_ret
       ELSE ipo_ret' = << wc_ret[1] = 1 >> /\ Return /\ UNCHANGED outcome
    /\ NoIO /\ NoLocals /\ NoBuild
    /\ UNCHANGED << wc_ret, stdout >>

\* main.rs:98: power_toggle asks is_powered_on.
power_toggle_query ==
    /\ At("power_toggle", "entry")
    /\ Call("branch", "is_powered_on")
    /\ NoIO /\ NoLocals /\ NoBuild
    /\ UNCHANGED << wc_ret, ipo_ret, stdout, outcome >>

\* power_toggle with the branches swapped.
power_toggle_branch_swapped ==
    /\ At("power_toggle", "branch")
    /\ IF ipo_ret[1]
       THEN stdout' = Append(stdout, "is on - turning off!") /\ Call("ret", "power_on")
       ELSE stdout' = Append(stdout, "is off - turning on!") /\ Call("ret", "power_off")
    /\ NoIO /\ NoLocals /\ NoBuild
    /\ UNCHANGED << wc_ret, ipo_ret, outcome >>

\* main.rs:98-104: the device is on: power_off; it is off: power_on.
power_toggle_branch ==
    /\ At("power_toggle", "branch")
    /\ IF ipo_ret[1]
       THEN stdout' = Append(stdout, "is on - turning off!") /\ Call("ret", "power_off")
       ELSE stdout' = Append(stdout, "is off - turning on!") /\ Call("ret", "power_on")
    /\ NoIO /\ NoLocals /\ NoBuild
    /\ UNCHANGED << wc_ret, ipo_ret, outcome >>

\* main.rs:105
power_toggle_return ==
    /\ At("power_toggle", "ret")
    /\ Return
    /\ NoIO /\ NoLocals /\ NoBuild
    /\ UNCHANGED << wc_ret, ipo_ret, stdout, outcome >>

\* main.rs:107-108: print_status asks is_powered_on.
print_status_query ==
    /\ At("print_status", "entry")
    /\ Call("print", "is_powered_on")
    /\ NoIO /\ NoLocals /\ NoBuild
    /\ UNCHANGED << wc_ret, ipo_ret, stdout, outcome >>

\* main.rs:108-113
print_status_print ==
    /\ At("print_status", "print")
    /\ stdout' = Append(stdout, IF ipo_ret[1] THEN "Power: on" ELSE "Power: off")
    /\ Return
    /\ NoIO /\ NoLocals /\ NoBuild
    /\ UNCHANGED << wc_ret, ipo_ret, outcome >>

----------------------------------------------------------------------------
(* write_command, main.rs:134-177 *)

\* The request being executed is a query.
IsQuery == vec[1] = QUERY_REQUEST

\* What the device may answer to the header read: up to 3 bytes; to a query the
\* modelled device announces at most MaxDataLen following bytes.
DeviceHeaders ==
    { d \in SeqsUpTo(DeviceBytes, 3) : (IsQuery /\ Len(d) = 3) => d[3] <= MaxDataLen }

\* write_command that sends the frame without its checksum.
wc_checksum_not_pushed ==
    /\ At("write_command", "entry")
    /\ IF checksum_panics(contents)
       THEN Exit("Overflow") /\ UNCHANGED vec
       ELSE vec' = contents /\ Goto("write") /\ UNCHANGED outcome
    /\ resp_buf' = <<>> /\ resp_data_buf' = <<>> /\ resp_checksum' = -1
    /\ NoIO /\ NoBuild
    /\ UNCHANGED << contents, wc_ret, ipo_ret, stdout >>

\* main.rs:135-137: clone the frame, push its checksum.
wc_checksum ==
    /\ At("write_command", "entry")
    /\ IF checksum_panics(contents)
       THEN Exit("Overflow") /\ UNCHANGED vec
       ELSE vec' = Append(contents, checksum(contents)) /\ Goto("write") /\ UNCHANGED outcome
    /\ resp_buf' = <<>> /\ resp_data_buf' = <<>> /\ resp_checksum' = -1
    /\ NoIO /\ NoBuild
    /\ UNCHANGED << contents, wc_ret, ipo_ret, stdout >>

\* main.rs:138: port.write_all(&vec) succeeds.
wc_write ==
    /\ At("write_command", "write")
    /\ port_writes' = Append(port_writes, [buf |-> vec, ok |-> TRUE])
    /\ Goto("read_header")
    /\ NoLocals /\ NoBuild
    /\ UNCHANGED << port_open, port_reads, wc_ret, ipo_ret, stdout, outcome >>

\* main.rs:138: port.write_all(&vec) fails and `.unwrap()` panics.
wc_write_fails ==
    /\ At("write_command", "write")
    /\ port_writes' = Append(port_writes, [buf |-> vec, ok |-> FALSE])
    /\ Exit("WriteCommand")
    /\ NoLocals /\ NoBuild
    /\ UNCHANGED << port_open, port_reads, wc_ret, ipo_ret, stdout >>

\* main.rs:140-145: port.read into vec![0; 3] delivers the bytes d, maybe fewer than 3.
wc_read_header ==
    /\ At("write_command", "read_header")
    /\ \E d \in DeviceHeaders :
         /\ resp_buf' = Filled(Zeros(3), d)
         /\ port_reads' = Append(port_reads, [kind |-> "header", len |-> 3, ok |-> TRUE, bytes |-> d])
    /\ Goto("check_header")
    /\ NoBuild
    /\ UNCHANGED << port_open, port_writes, contents, vec, resp_data_buf, resp_checksum,
                    wc_ret, ipo_ret, stdout, outcome >>

\* main.rs:144-145: port.read fails (time out, I/O error) and `.expect` panics.
wc_read_header_fails ==
    /\ At("write_command", "read_header")
    /\ resp_buf' = Zeros(3)
    /\ port_reads' = Append(port_reads, [kind |-> "header", len |-> 3, ok |-> FALSE, bytes |-> <<>>])
    /\ Exit("ReadResponse")
    /\ NoBuild
    /\ UNCHANGED << port_open, port_writes, contents, vec, resp_data_buf, resp_checksum,
                    wc_ret, ipo_ret, stdout >>

\* write_command that does not look at the header byte.
wc_check_header_skipped ==
    /\ At("write_command", "check_header")
    /\ Goto("check_answer") /\ UNCHANGED outcome
    /\ NoIO /\ NoLocals /\ NoBuild
    /\ UNCHANGED << wc_ret, ipo_ret, stdout >>

\* write_command that waits for the header byte to become right, without reading again.
wc_check_header_spin ==
    /\ At("write_command", "check_header")
    /\ IF resp_buf[1] # RESPONSE_HEADER
       THEN UNCHANGED stack
       ELSE Goto("check_answer")
    /\ NoIO /\ NoLocals /\ NoBuild
    /\ UNCHANGED << wc_ret, ipo_ret, stdout, outcome >>

\* main.rs:147-150
wc_check_header ==
    /\ At("write_command", "check_header")
    /\ IF resp_buf[1] # RESPONSE_HEADER
       THEN Exit("UnexpectedResponseHeader")
       ELSE Goto("check_answer") /\ UNCHANGED outcome
    /\ NoIO /\ NoLocals /\ NoBuild
    /\ UNCHANGED << wc_ret, ipo_ret, stdout >>

\* write_command that does not look at the answer byte.
wc_check_answer_skipped ==
    /\ At("write_command", "check_answer")
    /\ IF IsQuery THEN Goto("read_data") ELSE Goto("control")
    /\ NoIO /\ NoLocals /\ NoBuild
    /\ UNCHANGED << wc_ret, ipo_ret, stdout, outcome >>

\* main.rs:151-155: the answer byte, then the branch on the request type.
wc_check_answer ==
    /\ At("write_command", "check_answer")
    /\ IF resp_buf[2] # RESPONSE_ANSWER
       THEN Exit("UnexpectedResponseAnswer")
       ELSE /\ IF IsQuery THEN Goto("read_data") ELSE Goto("control")
            /\ UNCHANGED outcome
    /\ NoIO /\ NoLocals /\ NoBuild
    /\ UNCHANGED << wc_ret, ipo_ret, stdout >>

\* main.rs:156-158: port.read into vec![0; resp_buf[2]] delivers the bytes d.
wc_read_data ==
    /\ At("write_command", "read_data")
    /\ \E d \in SeqsUpTo(DeviceBytes, resp_buf[3]) :
         /\ resp_data_buf' = Filled(Zeros(resp_buf[3]), d)
         /\ port_reads' = Append(port_reads,
                [kind |-> "data", len |-> resp_buf[3], ok |-> TRUE, bytes |-> d])
    /\ Goto("pop")
    /\ NoBuild
    /\ UNCHANGED << port_open, port_writes, contents, vec, resp_buf, resp_checksum,
                    wc_ret, ipo_ret, stdout, outcome >>

\* main.rs:157-158: port.read fails and `.expect` panics.
wc_read_data_fails ==
    /\ At("write_command", "read_data")
    /\ resp_data_buf' = Zeros(resp_buf[3])
    /\ port_reads' = Append(port_reads,
           [kind |-> "data", len |-> resp_buf[3], ok |-> FALSE, bytes |-> <<>>])
    /\ Exit("ReadResponseData")
    /\ NoBuild
    /\ UNCHANGED << port_open, port_writes, contents, vec, resp_buf, resp_checksum,
                    wc_ret, ipo_ret, stdout >>

\* A pop that takes the checksum of an empty buffer to be 0.
wc_pop_default ==
    /\ At("write_command", "pop")
    /\ IF resp_data_buf = <<>>
       THEN resp_checksum' = 0 /\ UNCHANGED resp_data_buf
       ELSE resp_checksum' = Last(resp_data_buf) /\ resp_data_buf' = Front(resp_data_buf)
    /\ Goto("verify") /\ UNCHANGED outcome
    /\ NoIO /\ NoBuild
    /\ UNCHANGED << contents, vec, resp_buf, wc_ret, ipo_ret, stdout >>

\* main.rs:159: `resp_data_buf.pop().expect("error")`, a panic on an empty buffer.
wc_pop ==
    /\ At("write_command", "pop")
    /\ IF resp_data_buf = <<>>
       THEN Exit("EmptyResponse") /\ UNCHANGED << resp_checksum, resp_data_buf >>
       ELSE /\ resp_checksum' = Last(resp_data_buf)
            /\ resp_data_buf' = Front(resp_data_buf)
            /\ Goto("verify") /\ UNCHANGED outcome
    /\ NoIO /\ NoBuild
    /\ UNCHANGED << contents, vec, resp_buf, wc_ret, ipo_ret, stdout >>

\* write_command that returns the payload of a query without comparing the checksum.
wc_verify_query_unchecked ==
    /\ At("write_command", "verify")
    /\ resp_buf' = resp_buf \o resp_data_buf
    /\ wc_ret' = resp_data_buf /\ Return /\ UNCHANGED outcome
    /\ NoIO /\ NoBuild
    /\ UNCHANGED << contents, vec, resp_data_buf, resp_checksum, ipo_ret, stdout >>

\* main.rs:161-166: header ++ payload is summed and compared; the payload is returned.
wc_verify_query ==
    /\ At("write_command", "verify")
    /\ resp_buf' = resp_buf \o resp_data_buf
    /\ IF checksum_panics(resp_buf')
       THEN Exit("Overflow") /\ UNCHANGED wc_ret
       ELSE IF resp_checksum # checksum(resp_buf')
            THEN Exit("InvalidResponseChecksum") /\ UNCHANGED wc_ret
            ELSE wc_ret' = resp_data_buf /\ Return /\ UNCHANGED outcome
    /\ NoIO /\ NoBuild
    /\ UNCHANGED << contents, vec, resp_data_buf, resp_checksum, ipo_ret, stdout >>

\* write_command that accepts a control response whatever its third byte.
wc_verify_control_unchecked ==
    /\ At("write_command", "control")
    /\ resp_checksum' = Last(resp_buf)
    /\ resp_buf' = Front(resp_buf)
    /\ wc_ret' = <<>> /\ Return /\ UNCHANGED outcome
    /\ NoIO /\ NoBuild
    /\ UNCHANGED << contents, vec, resp_data_buf, ipo_ret, stdout >>

\* write_command that sends the frame again when the checksum of the response is wrong.
wc_verify_control_retry ==
    /\ At("write_command", "control")
    /\ resp_checksum' = Last(resp_buf)
    /\ resp_buf' = Front(resp_buf)
    /\ IF checksum_panics(resp_buf')
       THEN Exit("Overflow") /\ UNCHANGED wc_ret
       ELSE IF resp_checksum' # checksum(resp_buf')
            THEN Goto("write") /\ UNCHANGED << wc_ret, outcome >>
            ELSE wc_ret' = <<>> /\ Return /\ UNCHANGED outcome
    /\ NoIO /\ NoBuild
    /\ UNCHANGED << contents, vec, resp_data_buf, ipo_ret, stdout >>

\* main.rs:168-175: the third header byte is the checksum of the first two.
wc_verify_control ==
    /\ At("write_command", "control")
    /\ resp_checksum' = Last(resp_buf)
    /\ resp_buf' = Front(resp_buf)
    /\ IF checksum_panics(resp_buf')
       THEN Exit("Overflow") /\ UNCHANGED wc_ret
       ELSE IF resp_checksum' # checksum(resp_buf')
            THEN Exit("InvalidResponseChecksum") /\ UNCHANGED wc_ret
            ELSE wc_ret' = <<>> /\ Return /\ UNCHANGED outcome
    /\ NoIO /\ NoBuild
    /\ UNCHANGED << contents, vec, resp_data_buf, ipo_ret, stdout >>

----------------------------------------------------------------------------

Next ==
    \/ MainCheckArgs
    \/ MainOpenPort
    \/ MainOpenPortFails
    \/ MainMatch
    \/ MainReturn
    \/ power_on
    \/ power_off
    \/ volume_up
    \/ volume_down
    \/ mute_toggle
    \/ is_powered_on
    \/ CommandReturn
    \/ is_powered_on_index
    \/ power_toggle_query
    \/ power_toggle_branch
    \/ power_toggle_return
    \/ print_status_query
    \/ print_status_print
    \/ wc_checksum
    \/ wc_write
    \/ wc_write_fails
    \/ wc_read_header
    \/ wc_read_header_fails
    \/ wc_check_header
    \/ wc_check_answer
    \/ wc_read_data
    \/ wc_read_data_fails
    \/ wc_pop
    \/ wc_verify_query
    \/ wc_verify_control

Spec == Init /\ [][Next]_vars

\* The process is sequential and every blocking port call returns: as long as
\* a step is possible, one is taken.
FairSpec == Spec /\ WF_vars(Next)

----------------------------------------------------------------------------
(* What the history says about the exchanges of the invocation *)

\* The action token, when there is one.
Token == IF Len(args) = 3 THEN args[3] ELSE "none"

\* The header buffer the i-th read call left behind.
HeaderBuf(i) == Filled(Zeros(3), port_reads[i].bytes)

\* The data buffer the i-th read call left behind.
DataBuf(i) == Filled(Zeros(port_reads[i].len), port_reads[i].bytes)

\* The number of responses the process started to read.
NumHeaderReads == Cardinality({ i \in DOMAIN port_reads : port_reads[i].kind = "header" })

\* write_command has compared the checksum of the response in resp_buf.
Compared == resp_checksum # -1 /\ ~ (Top.fn = "write_command" /\ Top.pc = "verify")

\* write_command has accepted the response and returned.
Accepted == resp_checksum # -1 /\ Top.fn # "write_command"

\* The first exchange was a query whose response write_command read in full
\* and accepted: header byte, answer byte and checksum.
QueryAccepted ==
    /\ Len(port_reads) >= 2
    /\ port_reads[1].ok /\ port_reads[2].ok /\ port_reads[2].kind = "data"
    /\ HeaderBuf(1)[1] = RESPONSE_HEADER
    /\ HeaderBuf(1)[2] = RESPONSE_ANSWER
    /\ DataBuf(2) # <<>>
    /\ Last(DataBuf(2)) = checksum(HeaderBuf(1) \o Front(DataBuf(2)))

\* The payload of that response.
QueryPayload == Front(DataBuf(2))

----------------------------------------------------------------------------
(* C1 *)

\* C1 (as claimed): every checksum the program computes is the sum of the
\* bytes modulo 256: the byte pushed onto an outbound frame is the sum mod 256
\* of the frame, and a response is accepted exactly when its trailing byte is
\* the sum mod 256 of the bytes before it.
C1_ChecksumIsSumMod256 ==
    /\ (vec # <<>> /\ ~ (Top.fn = "write_command" /\ Top.pc = "entry"))
          => Last(vec) = SumBytes(Front(vec)) % 256
    /\ (Compared /\ outcome # "Overflow")
          => ((outcome # "InvalidResponseChecksum") <=> (resp_checksum = SumBytes(resp_buf) % 256))

----------------------------------------------------------------------------
(* C2 *)

\* C2: every step that writes to the channel is one write_all call of
\* write_command, made once per execution of write_command, and its buffer is
\* the frame handed to write_command followed by exactly one byte, the sum
\* modulo 256 of the bytes of the frame.
C2_FrameThenChecksumInOneWrite ==
    [][ port_writes' # port_writes =>
          /\ At("write_command", "write")
          /\ ~ (At("write_command", "write"))'
          /\ Len(port_writes') = Len(port_writes) + 1
          /\ SubSeq(port_writes', 1, Len(port_writes)) = port_writes
          /\ Last(port_writes').buf = Append(contents, SumBytes(contents) % 256) ]_vars

\* A frame has been written successfully.
C2_Witness ==
    /\ port_writes # <<>>
    /\ Last(port_writes).ok
    /\ Len(Last(port_writes).buf) = Len(contents) + 1

----------------------------------------------------------------------------
(* C3 *)

\* The encoder table of the specification, as literal bytes.
C3_Table ==
    [ f \in ControlFns \cup {"is_powered_on"} |->
        CASE f = "power_on" -> << 140, 0, 0, 2, 1 >>
          [] f = "power_off" -> << 140, 0, 0, 2, 0 >>
          [] f = "volume_up" -> << 140, 0, 5, 3, 0, 0 >>
          [] f = "volume_down" -> << 140, 0, 5, 3, 0, 1 >>
          [] f = "mute_toggle" -> << 140, 0, 6, 2, 0 >>
          [] f = "is_powered_on" -> << 131, 0, 0, 255, 255 >> ]

\* The command each directly encoded action token stands for.
C3_Command ==
    [ t \in {"on", "off", "volume-up", "volume-down", "mute", "status"} |->
        CASE t = "on" -> "power_on"
          [] t = "off" -> "power_off"
          [] t = "volume-up" -> "volume_up"
          [] t = "volume-down" -> "volume_down"
          [] t = "mute" -> "mute_toggle"
          [] t = "status" -> "is_powered_on" ]

\* C3: whenever write_command runs, the frame it was handed is the fixed
\* sequence of the encoder table for the command function that called it,
\* whatever was exchanged before; and the command function is the one the
\* action token names.
C3_EncoderTable ==
    Top.fn = "write_command" =>
        /\ contents = C3_Table[Caller]
        /\ Token \in DOMAIN C3_Command => Caller = C3_Command[Token]

\* power_off hands over its frame after an earlier exchange (the query of power_toggle).
C3_Witness ==
    /\ Top.fn = "write_command"
    /\ Caller = "power_off"
    /\ Len(port_writes) = 1
    /\ contents = << 140, 0, 0, 2, 0 >>

----------------------------------------------------------------------------
(* C4 *)

\* C4: for the action `power`, the first frame written is the QueryPower
\* frame; a second frame is written only after the query response was read in
\* full and accepted, it is the last one, and it is the PowerOff frame when the
\* payload decodes to on (first byte 1) and the PowerOn frame otherwise.
C4_PowerToggleOrder ==
    Token = "power" =>
        /\ Len(port_writes) <= 2
        /\ Len(port_writes) >= 1 => port_writes[1].buf = << 131, 0, 0, 255, 255, 129 >>
        /\ Len(port_writes) = 2 =>
              /\ port_writes[1].ok
              /\ QueryAccepted
              /\ port_writes[2].buf =
                    IF QueryPayload # <<>> /\ QueryPayload[1] = 1
                    THEN << 140, 0, 0, 2, 0, 142 >>
                    ELSE << 140, 0, 0, 2, 1, 143 >>

\* power_toggle found the device on and wrote the PowerOff frame.
C4_Witness ==
    /\ Token = "power"
    /\ Len(port_writes) = 2
    /\ QueryPayload = << 1 >>
    /\ port_writes[2].buf = << 140, 0, 0, 2, 0, 142 >>
    /\ port_writes[2].ok

----------------------------------------------------------------------------
(* C5 *)

\* C5 (as claimed): once a QueryPower response is accepted, decoding it never
\* fails, and the decoded power state is "on" exactly when the payload is not
\* empty and its first byte is 1.
C5_DecodeTotal ==
    QueryAccepted =>
        /\ outcome # "IndexOutOfBounds"
        /\ ipo_ret # <<>> => (ipo_ret[1] <=> (QueryPayload # <<>> /\ QueryPayload[1] = 1))

----------------------------------------------------------------------------
(* C6 *)

\* The response header just read does not start with 0x70.
C6_BadHeaderByte ==
    /\ Top.fn = "write_command"
    /\ Top.pc \notin {"entry", "write", "read_header"}
    /\ Last(port_reads).kind = "header"
    /\ Last(port_reads).ok
    /\ HeaderBuf(Len(port_reads))[1] # 112

\* C6: for a control and for a query request alike, when the first byte of
\* the response header is not 0x70 the next step of the process ends it with
\* the failure UnexpectedResponseHeader, without reading from or writing to
\* the channel; and a process that has ended takes no further step.
C6_BadHeaderEndsTransaction ==
    [][ /\ outcome = "Running"
        /\ C6_BadHeaderByte =>
              /\ outcome' = "UnexpectedResponseHeader"
              /\ UNCHANGED << port_reads, port_writes, wc_ret >> ]_vars

\* A query ended with UnexpectedResponseHeader on a full header whose first byte is wrong.
C6_Witness ==
    /\ outcome = "UnexpectedResponseHeader"
    /\ vec[1] = 131
    /\ Len(port_reads) = 1
    /\ port_reads[1].bytes = << 113, 0, 2 >>

----------------------------------------------------------------------------
(* C7 *)

\* C7 (as claimed): whenever write_command has compared the checksum of a
\* response whose trailing byte differs from the sum modulo 256 of the bytes
\* before it, the process has ended with InvalidResponseChecksum (so that no
\* payload is returned).
C7_TamperedChecksumRejected ==
    (Compared /\ resp_checksum # SumBytes(resp_buf) % 256)
        => outcome = "InvalidResponseChecksum"

----------------------------------------------------------------------------
(* C8 *)

\* C8 (as claimed): an invocation writes at most one frame and reads at most
\* one response, and one that completes has written exactly one frame and read
\* exactly one response.
C8_ExactlyOneExchange ==
    /\ Len(port_writes) <= 1
    /\ NumHeaderReads <= 1
    /\ outcome = "Ok" => (Len(port_writes) = 1 /\ NumHeaderReads = 1)

\* The exchanges of an invocation: two for `power`, one otherwise.
C8_Exchanges == IF Token = "power" THEN 2 ELSE 1

\* C8 (amended): an invocation writes at most one frame and reads at most one
\* response, at most two for `power` (QueryPower, then PowerOn or PowerOff); no
\* response is read without a frame written before; and an invocation that
\* completes has performed exactly one exchange, exactly two for `power`.
C8_ExchangesPerInvocation ==
    /\ Len(port_writes) <= C8_Exchanges
    /\ NumHeaderReads <= Len(port_writes)
    /\ outcome = "Ok" => (Len(port_writes) = C8_Exchanges /\ NumHeaderReads = C8_Exchanges)

\* `power` completed after its two exchanges.
C8_Witness ==
    /\ Token = "power"
    /\ outcome = "Ok"
    /\ Len(port_writes) = 2
    /\ NumHeaderReads = 2

----------------------------------------------------------------------------
(* C9 *)

\* The response to a query passed the header and answer checks with a
\* data_length byte of 0, and the read of the 0 following bytes returned.
C9_NothingFollows ==
    /\ Len(port_reads) >= 2
    /\ Last(port_reads) = [kind |-> "data", len |-> 0, ok |-> TRUE, bytes |-> <<>>]
    /\ HeaderBuf(Len(port_reads) - 1) = << 112, 0, 0 >>

\* C9: when the header of a query response is valid and its data_length byte
\* is 0, the next step of the process ends it with the failure EmptyResponse,
\* and no payload is returned or decoded.
C9_EmptyResponse ==
    [][ (outcome = "Running" /\ C9_NothingFollows) =>
            /\ outcome' = "EmptyResponse"
            /\ UNCHANGED << wc_ret, ipo_ret, stdout >> ]_vars

\* A `status` query ended with EmptyResponse.
C9_Witness ==
    /\ outcome = "EmptyResponse"
    /\ Token = "status"
    /\ C9_NothingFollows
    /\ wc_ret = <<>>

----------------------------------------------------------------------------
(* C11 *)

\* C11 (as claimed): an invocation with the action token `volume:<level>` is
\* not rejected as an unknown action.
C11_VolumeSetRecognized ==
    Token \in {"volume:0", "volume:255"} => outcome # "InvalidAction"

----------------------------------------------------------------------------
(* C12 *)

\* The action tokens the specification recognizes, as literals.
C12_Recognized ==
    {"on", "off", "power", "volume-up", "volume-down", "mute", "status",
     "volume:0", "volume:255"}

\* C12: with an unrecognized action token or a wrong number of arguments the
\* invocation never completes, nothing is ever written to or read from the
\* channel, and write_command is never entered.
C12_RejectedBeforeIO ==
    Token \notin C12_Recognized =>
        /\ outcome \in {"Running", "UnexpectedArguments", "OpenPort", "InvalidAction"}
        /\ port_writes = <<>>
        /\ port_reads = <<>>
        /\ \A i \in DOMAIN stack : stack[i].fn = "main"

\* An unknown word was rejected by the match, after the port was opened.
C12_Witness ==
    /\ Token = "bogus"
    /\ outcome = "InvalidAction"
    /\ port_open
    /\ port_writes = <<>>

----------------------------------------------------------------------------
(* C13 *)

\* The response header just read starts with 0x70 and its second byte is not 0x00.
C13_BadAnswerByte ==
    /\ Top.fn = "write_command"
    /\ Top.pc \notin {"entry", "write", "read_header"}
    /\ Last(port_reads).kind = "header"
    /\ Last(port_reads).ok
    /\ HeaderBuf(Len(port_reads))[1] = 112
    /\ HeaderBuf(Len(port_reads))[2] # 0

\* C13: when the header byte is 0x70 and the answer byte is not 0x00, the
\* process passes the header check and then ends with the failure
\* UnexpectedResponseAnswer, without any further read or write and without a
\* checksum being popped or compared; and UnexpectedResponseAnswer is only
\* ever reported for a response whose header byte is 0x70, the header byte
\* being checked first.
C13_BadAnswerEndsTransaction ==
    [][ /\ (outcome = "Running" /\ C13_BadAnswerByte) =>
              /\ UNCHANGED << port_reads, port_writes, wc_ret, resp_checksum >>
              /\ resp_checksum = -1
              /\ IF Top.pc = "check_header"
                 THEN outcome' = "Running" /\ stack'[Len(stack)].pc = "check_answer"
                 ELSE outcome' = "UnexpectedResponseAnswer"
        /\ outcome' = "UnexpectedResponseAnswer" =>
              /\ Top.pc = "check_answer"
              /\ HeaderBuf(Len(port_reads))[1] = 112 ]_vars

\* A control request ended with UnexpectedResponseAnswer.
C13_Witness ==
    /\ outcome = "UnexpectedResponseAnswer"
    /\ vec[1] = 140
    /\ Last(port_reads).bytes = << 112, 1, 113 >>
    /\ resp_checksum = -1

----------------------------------------------------------------------------
(* C14 *)

\* A step of a transaction has failed: a write or a read failed, a header or
\* answer byte was wrong, nothing followed the header of a query, or the
\* checksum compared did not match.
C14_StepFailed ==
    \/ \E i \in DOMAIN port_writes : ~ port_writes[i].ok
    \/ \E i \in DOMAIN port_reads : ~ port_reads[i].ok
    \/ \E i \in DOMAIN port_reads :
          /\ port_reads[i].kind = "header"
          /\ (HeaderBuf(i)[1] # 112 \/ HeaderBuf(i)[2] # 0)
    \/ \E i \in DOMAIN port_reads : port_reads[i].kind = "data" /\ port_reads[i].len = 0
    \/ Compared /\ resp_checksum # checksum(resp_buf)
    \/ outcome \notin {"Running", "Ok"}

\* C14: once a step of a transaction has failed, no step of the invocation
\* writes to or reads from the channel again; no frame is ever written twice;
\* and for `power` a second frame is only ever written after an accepted query.
C14_NoRetries ==
    /\ [](\A i, j \in DOMAIN port_writes : port_writes[i].buf = port_writes[j].buf => i = j)
    /\ []((Token = "power" /\ Len(port_writes) > 1) => QueryAccepted)
    /\ [][ C14_StepFailed => UNCHANGED << port_writes, port_reads >> ]_vars

\* The query of `power` failed its checksum comparison and nothing was written after it.
C14_Witness ==
    /\ Token = "power"
    /\ outcome = "InvalidResponseChecksum"
    /\ Len(port_writes) = 1
    /\ Len(port_reads) = 2

----------------------------------------------------------------------------
(* C15 *)

\* The last frame written is a control frame, its response header was read,
\* and write_command is no longer running.
C15_ControlFinished ==
    /\ port_writes # <<>>
    /\ Last(port_writes).buf[1] = 140
    /\ NumHeaderReads = Len(port_writes)
    /\ Last(port_reads).ok
    /\ ~ (Top.fn = "write_command" /\ outcome = "Running")

\* C15: after a control frame only the 3 byte header is read, never a payload
\* (a data read only ever follows the header of a query frame); the response
\* is accepted exactly when its bytes are 0x70, 0x00 and the sum modulo 256 of
\* these two, and otherwise the process ends with a header, answer or checksum
\* failure; on acceptance write_command returns an empty Vec.
C15_ControlResponse ==
    /\ \A i \in DOMAIN port_reads :
          /\ port_reads[i].kind = "header" => port_reads[i].len = 3
          /\ port_reads[i].kind = "data" => (i = 2 /\ port_writes[1].buf[1] = 131)
    /\ (port_writes # <<>> /\ Last(port_writes).buf[1] = 140) =>
          NumHeaderReads < Len(port_writes) \/ Last(port_reads).kind = "header"
    /\ C15_ControlFinished =>
          LET h == HeaderBuf(Len(port_reads))
          IN  /\ (outcome \in {"Running", "Ok"})
                    <=> (h[1] = 112 /\ h[2] = 0 /\ h[3] = SumBytes(<< h[1], h[2] >>) % 256)
              /\ outcome \in {"Running", "Ok"} => wc_ret = <<>>
              /\ outcome \in {"Running", "Ok", "UnexpectedResponseHeader",
                              "UnexpectedResponseAnswer", "InvalidResponseChecksum"}

\* `mute` was accepted on the response 70 00 70.
C15_Witness ==
    /\ Token = "mute"
    /\ C15_ControlFinished
    /\ outcome = "Ok"
    /\ port_reads = << [kind |-> "header", len |-> 3, ok |-> TRUE, bytes |-> << 112, 0, 112 >>] >>

----------------------------------------------------------------------------
(* C16 *)

\* The channel delivered fewer bytes than the header of a query response announced.
C16_ShortDataRead ==
    /\ port_reads # <<>>
    /\ Last(port_reads).kind = "data"
    /\ Last(port_reads).ok
    /\ Len(Last(port_reads).bytes) < Last(port_reads).len

\* C16 (as claimed): when the channel delivers fewer bytes than the header of
\* a query response announced, no checksum is popped or compared and nothing
\* is returned: the transaction fails with ReadResponseData; and a returned
\* payload consists of bytes the device sent only.
C16_ExactDataRead ==
    /\ C16_ShortDataRead =>
          /\ resp_checksum = -1
          /\ outcome \in {"Running", "ReadResponseData"}
          /\ Top.fn = "write_command"
    /\ (QueryAccepted /\ Top.fn # "write_command") =>
          /\ Len(port_reads[2].bytes) = port_reads[2].len
          /\ QueryPayload = Front(port_reads[2].bytes)

----------------------------------------------------------------------------
(* C17 *)

\* The channel delivered fewer than 3 bytes of a response header.
C17_ShortHeaderRead ==
    /\ port_reads # <<>>
    /\ Last(port_reads).kind = "header"
    /\ Last(port_reads).ok
    /\ Len(Last(port_reads).bytes) < 3

\* C17 (as claimed): when the channel delivers fewer than 3 bytes of the
\* response header, none of the header, answer and checksum checks is made on
\* the buffer: the transaction fails with ReadResponse.
C17_ExactHeaderRead ==
    C17_ShortHeaderRead =>
        /\ outcome \in {"Running", "ReadResponse"}
        /\ Top.fn = "write_command"
        /\ Top.pc = "check_header"

----------------------------------------------------------------------------
(* C18 *)

\* The number of header reads among the first i read calls: the exchange the
\* i-th read call belongs to.
C18_Exchange(i) ==
    Cardinality({ j \in 1 .. i : port_reads[j].kind = "header" })

\* The reads made so far are in the order of the transaction state machine.
C18_ReadsInOrder ==
    \A i \in DOMAIN port_reads :
        LET k == C18_Exchange(i)
        IN  /\ k >= 1
            /\ k <= Len(port_writes)
            /\ port_writes[k].ok
            /\ port_reads[i].kind = "data" =>
                  /\ port_reads[i - 1].kind = "header"
                  /\ port_reads[i - 1].ok
                  /\ port_writes[k].buf[1] = 131
                  /\ HeaderBuf(i - 1)[1] = 112
                  /\ HeaderBuf(i - 1)[2] = 0
                  /\ port_reads[i].len = HeaderBuf(i - 1)[3]

\* C18: no read is made before the frame of its exchange was written; a
\* payload read is made only right after the header read of a query whose
\* header and answer bytes are valid; and write_command returns only after
\* the checksum comparison succeeded, the payload it popped the checksum from
\* for a query and an empty Vec for a control request.
C18_TransactionOrder ==
    /\ [] C18_ReadsInOrder
    /\ [][ (Top.fn = "write_command" /\ stack' = Front(stack)) =>
              /\ Top.pc \in {"verify", "control"}
              /\ Last(port_reads).ok
              /\ resp_checksum' # -1
              /\ resp_checksum' = checksum(resp_buf')
              /\ wc_ret' = IF IsQuery THEN Front(DataBuf(Len(port_reads))) ELSE <<>> ]_vars

\* `status` completed on the response 70 00 02 01 73.
C18_Witness ==
    /\ Token = "status"
    /\ outcome = "Ok"
    /\ Len(port_writes) = 1
    /\ port_reads[1].bytes = << 112, 0, 2 >>
    /\ port_reads[2].bytes = << 1, 115 >>
    /\ wc_ret = << 1 >>

----------------------------------------------------------------------------
(* C19 *)

\* C19: when every step that can be taken is taken, every invocation ends
\* (main returns, or the process exits or panics), having written at most one
\* frame, at most two for `power`.
C19_Terminates ==
    <>(outcome # "Running" /\ Len(port_writes) <= C8_Exchanges)

\* `power` ended in its second transaction, on a wrong checksum of the control response.
C19_Witness ==
    /\ Token = "power"
    /\ outcome = "InvalidResponseChecksum"
    /\ Len(port_writes) = 2
    /\ Len(port_reads) = 3

----------------------------------------------------------------------------
(* C20 *)

\* C20: `status` writes nothing but the QueryPower frame, and `on`, `off`,
\* `volume-up`, `volume-down` and `mute` write control frames (request type
\* 0x8c) only, never a query frame.
C20_StatusReadOnly ==
    /\ Token = "status" =>
          \A i \in DOMAIN port_writes : port_writes[i].buf = << 131, 0, 0, 255, 255, 129 >>
    /\ Token \in {"on", "off", "volume-up", "volume-down", "mute"} =>
          \A i \in DOMAIN port_writes :
              port_writes[i].buf[1] = 140 /\ port_writes[i].buf[1] # 131

\* `status` completed and printed the power state after its one query frame.
C20_Witness ==
    /\ Token = "status"
    /\ outcome = "Ok"
    /\ port_writes = << [buf |-> << 131, 0, 0, 255, 255, 129 >>, ok |-> TRUE] >>
    /\ stdout = << "Power: off" >>

====
